---- MODULE Spec2Model ----
(***************************************************************************)
(* The commit protocol of the chat application: the browser-side           *)
(* handleCommit (App), the server-side commit endpoint in its two          *)
(* implementations (the Next.js route handler POST and the Vercel          *)
(* serverless handler), and the remote source-control host they talk to.   *)
(***************************************************************************)
EXTENDS Integers, Sequences, FiniteSets, TLC

(***************************************************************************)
(* Bounds of the model.                                                    *)
(***************************************************************************)
\* number of endpoint invocations a behaviour may start
MaxInv == 2
\* number of changes other writers may make to the remote file
MaxExt == 1
\* number of handleCommit calls the browser may make
MaxCalls == 2

(***************************************************************************)
(* JavaScript values.  An optional value is a sequence of length at most   *)
(* one: None is undefined, Some(v) is the value v.  Strings are TLA+       *)
(* strings; file contents are sequences of bytes.                          *)
(***************************************************************************)
None == << >>
Some(v) == << v >>

\* the empty file content (the empty string of bytes)
EmptyBytes == << >>

\* !x of JavaScript for an optional string: undefined or ""
FalsyStr(o) == o = None \/ o[1] = ""

\* !x of JavaScript for an optional content: undefined or the empty string
FalsyBytes(o) == o = None \/ Len(o[1]) = 0

(***************************************************************************)
(* Buffer.from(new_content).toString('base64'): the content is cut into    *)
(* groups of three bytes, each group gives four 6-bit digits; a last group *)
(* of one or two bytes is padded with '=' (written Pad).                   *)
(***************************************************************************)
Pad == 64

RECURSIVE Base64(_)
Base64(bytes) ==
    IF Len(bytes) = 0 THEN << >>
    ELSE IF Len(bytes) = 1 THEN
        << bytes[1] \div 4, (bytes[1] % 4) * 16, Pad, Pad >>
    ELSE IF Len(bytes) = 2 THEN
        << bytes[1] \div 4,
           (bytes[1] % 4) * 16 + bytes[2] \div 16,
           (bytes[2] % 16) * 4,
           Pad >>
    ELSE
        << bytes[1] \div 4,
           (bytes[1] % 4) * 16 + bytes[2] \div 16,
           (bytes[2] % 16) * 4 + bytes[3] \div 64,
           bytes[3] % 64 >> \o Base64(SubSeq(bytes, 4, Len(bytes)))

(***************************************************************************)
(* The remote host (GitHub contents API).  A path holds nothing, a file    *)
(* or a directory.  The revision marker of a file is its blob id, which    *)
(* is a function of the content alone.                                     *)
(***************************************************************************)
Absent == [kind |-> "absent", content |-> EmptyBytes]
File(c) == [kind |-> "file", content |-> c]
Dir == [kind |-> "dir", content |-> EmptyBytes]

\* the blob id of a content
BlobSha(c) == << "blob", c >>

\* the host decodes the transmitted content
RECURSIVE Base64Decode(_)
Base64Decode(digits) ==
    IF Len(digits) = 0 THEN << >>
    ELSE
        LET d == SubSeq(digits, 1, 4)
            b1 == d[1] * 4 + d[2] \div 16
            b2 == (d[2] % 16) * 16 + (IF d[3] = Pad THEN 0 ELSE d[3] \div 4)
            b3 == (IF d[3] = Pad THEN 0 ELSE (d[3] % 4) * 64)
                  + (IF d[4] = Pad THEN 0 ELSE d[4])
            group == IF d[3] = Pad THEN << b1 >>
                     ELSE IF d[4] = Pad THEN << b1, b2 >>
                     ELSE << b1, b2, b3 >>
        IN  group \o Base64Decode(SubSeq(digits, 5, Len(digits)))

\* upstream messages of the host
MsgNotFound == "Not Found"
MsgServerError == "Server Error"
MsgConflict == "is at a different sha than the one supplied"
MsgShaMissing == "Invalid request: sha wasn't supplied"
MsgNotAFile == "path is not a file"

\* GET /repos/{owner}/{repo}/contents/{path}: what getContent resolves to
\* (ok, with the data) or rejects with (an error with a status)
RemoteGetContent(entry) ==
    IF entry.kind = "file" THEN
        [ok |-> TRUE, status |-> 200, isArray |-> FALSE,
         sha |-> Some(BlobSha(entry.content)), message |-> ""]
    ELSE IF entry.kind = "dir" THEN
        [ok |-> TRUE, status |-> 200, isArray |-> TRUE,
         sha |-> None, message |-> ""]
    ELSE
        [ok |-> FALSE, status |-> 404, isArray |-> FALSE,
         sha |-> None, message |-> MsgNotFound]

\* a getContent that fails for another reason than 'not found'
RemoteGetContentFault ==
    [ok |-> FALSE, status |-> 500, isArray |-> FALSE,
     sha |-> None, message |-> MsgServerError]

\* PUT /repos/{owner}/{repo}/contents/{path}: the revision-marker check.
\* The write is accepted when the path holds nothing and no marker is
\* given, or holds a file whose blob id is the marker given.
RemotePutContent(entry, sha, digits) ==
    IF entry.kind = "dir" THEN
        [ok |-> FALSE, status |-> 422, message |-> MsgNotAFile, entry |-> entry]
    ELSE IF entry.kind = "absent" THEN
        IF sha = None
        THEN [ok |-> TRUE, status |-> 201, message |-> "",
              entry |-> File(Base64Decode(digits))]
        ELSE [ok |-> FALSE, status |-> 409, message |-> MsgConflict, entry |-> entry]
    ELSE IF sha = None THEN
        [ok |-> FALSE, status |-> 422, message |-> MsgShaMissing, entry |-> entry]
    ELSE IF sha = Some(BlobSha(entry.content)) THEN
        [ok |-> TRUE, status |-> 200, message |-> "",
         entry |-> File(Base64Decode(digits))]
    ELSE
        [ok |-> FALSE, status |-> 409, message |-> MsgConflict, entry |-> entry]

\* a createOrUpdateFileContents that fails in transport or on the host
RemotePutContentFault(entry) ==
    [ok |-> FALSE, status |-> 500, message |-> MsgServerError, entry |-> entry]

(***************************************************************************)
(* The commit endpoint: POST of app/api/commit/route.ts ("route") and the  *)
(* serverless handler of api/commit ("handler").                           *)
(***************************************************************************)
Resp(status, success, message, error) ==
    [status |-> status, success |-> success, message |-> message, error |-> error]

\* no response produced yet
NoResp == Resp(0, FALSE, "", "")

\* error.message || fallback
OrElse(message, fallback) == IF message = "" THEN fallback ELSE message

\* a handler without its method check
MethodNotAllowedNever(impl, method) == FALSE

\* (impl is the implementation: "route" or "handler")
\* the handler answers 405 to every method but POST; the route handler is
\* only ever entered for POST
MethodNotAllowed(impl, method) == impl = "handler" /\ method # "POST"

\* const { file_path, new_content, commit_message } = body throws a
\* TypeError when the body is null or undefined
MsgTypeError == "Cannot destructure property 'file_path' of 'body'"
DestructureThrows(hasBody) == ~hasBody

\* !file_path || !new_content || !commit_message
MissingFields(body) ==
    \/ FalsyStr(body.file_path)
    \/ FalsyBytes(body.new_content)
    \/ FalsyStr(body.commit_message)

MsgMissingFields(impl) ==
    IF impl = "route"
    THEN "Missing required fields: file_path, new_content, commit_message"
    ELSE "Missing required fields"

\* a check of the token alone
MissingConfigTokenOnly(e) == ~e.token

\* !token || !owner || !repo
MissingConfig(e) == ~e.token \/ ~e.owner \/ ~e.repo

MsgConfig == "Server configuration error: Missing GitHub credentials."

\* the catch block of the endpoint
MsgCatchFallback(impl) ==
    IF impl = "route" THEN "Internal Server Error" ELSE "Failed to commit to GitHub"

\* a catch block that drops the message of the error
CatchResponseGeneric(impl, message) == Resp(500, FALSE, "", MsgCatchFallback(impl))

\* a catch block that swallows the error and reports success
CatchResponseSwallowed(impl, message) == Resp(200, TRUE, "", "")

CatchResponse(impl, message) ==
    Resp(500, FALSE, "", OrElse(message, MsgCatchFallback(impl)))

\* a read whose sha is never taken
ShaFromDataNever(data) == None

\* if (!Array.isArray(data) && data.sha) sha = data.sha
ShaFromData(data) ==
    IF ~data.isArray /\ data.sha # None THEN data.sha ELSE None

\* the catch of the read: a status other than 404 is logged
ReadErrorLogged(status) == status # 404

\* a catch that takes 'not found' for an error as well
ReadErrorRethrownAlways(impl, status) == impl = "route"

\* ... and, in the route handler only, thrown again
ReadErrorRethrown(impl, status) == impl = "route" /\ status # 404

\* the two messages the wrong way round
SuccessMessageSwapped(sha) ==
    IF sha # None THEN "File created successfully" ELSE "File updated successfully"

\* sha ? 'File updated successfully' : 'File created successfully'
SuccessMessage(sha) ==
    IF sha # None THEN "File updated successfully" ELSE "File created successfully"

SuccessResponse(sha) == Resp(200, TRUE, SuccessMessage(sha), "")

\* a write that never passes the sha
ShaArgumentOmitted(sha) == None

\* the sha argument of createOrUpdateFileContents
ShaArgument(sha) == sha

(***************************************************************************)
(* The inputs of the model.                                                *)
(***************************************************************************)
Invs == 1..MaxInv
Calls == 1..MaxCalls

\* the path the commits are about
FilePath == "a.txt"

\* "h" and "hi"
ContentH == << 104 >>
ContentHi == << 104, 105 >>
Contents == {ContentH, ContentHi}

Body(path, content, message) ==
    [file_path |-> path, new_content |-> content, commit_message |-> message]

\* request bodies with every field present and non-empty
ValidBodies == {Body(Some(FilePath), Some(c), Some("m")) : c \in Contents}

\* request bodies with a field missing (undefined) or empty
DefectiveBodies ==
    {Body(p, Some(ContentH), Some("m")) : p \in {None, Some("")}}
    \cup {Body(Some(FilePath), c, Some("m")) : c \in {None, Some(EmptyBytes)}}
    \cup {Body(Some(FilePath), Some(ContentH), m) : m \in {None, Some("")}}
    \cup {Body(None, None, None)}

RequestBodies == ValidBodies \cup DefectiveBodies

Methods == {"POST", "GET"}

(***************************************************************************)
(* The chat service: texts, the values JSON.parse yields, the reply       *)
(* parser of chatWithAI.                                                   *)
(*                                                                         *)
(* A text is a sequence of lexemes << kind, characters >>: a code fence,  *)
(* a newline, a run of letters, a JSON string or number literal, a JSON   *)
(* punctuation mark, or a run of plain characters.                        *)
(***************************************************************************)
Lex(kind, characters) == << kind, characters >>

\* three backquotes, written ''' in the strings of this module
Fence == Lex("fence", "'''")
NL == Lex("nl", "\n")
Word(w) == Lex("word", w)
StrLit(w) == Lex("str", w)
NumLit(n) == Lex("num", n)
Punct(c) == Lex("punct", c)
Chars(c) == Lex("chars", c)

EmptyText == << >>

\* JavaScript values: t is the type, s the characters of a string (the
\* literal of a number or boolean), m the members << key, value >> of an
\* object or array in the order of the text
Value(t, s, m) == [t |-> t, s |-> s, m |-> m]

Undefined == Value("undefined", << >>, << >>)
Null == Value("null", << >>, << >>)
Str(s) == Value("string", s, << >>)
Num(n) == Value("number", << NumLit(n) >>, << >>)
Bool(b) == Value("boolean", << Word(b) >>, << >>)
Obj(m) == Value("object", << >>, m)
Arr(m) == Value("array", << >>, m)

\* the string a JSON string literal denotes
StrOf(lexeme) ==
    Str(IF lexeme[2] = "" THEN EmptyText ELSE << Chars(lexeme[2]) >>)

\* JavaScript truthiness
Truthy(v) ==
    CASE v.t = "undefined" -> FALSE
      [] v.t = "null" -> FALSE
      [] v.t = "string" -> v.s # EmptyText
      [] v.t = "number" -> v.s # << NumLit("0") >>
      [] v.t = "boolean" -> v.s = << Word("true") >>
      [] OTHER -> TRUE

\* reading a property of null or undefined throws a TypeError
PropertyReadThrows(v) == v.t \in {"null", "undefined"}

RECURSIVE LastMember(_, _, _)
LastMember(m, key, n) ==
    IF n = 0 THEN Undefined
    ELSE IF m[n][1] = key THEN m[n][2]
    ELSE LastMember(m, key, n - 1)

\* v[key] for the keys of a reply; a repeated key of a JSON text keeps its
\* last value
Get(v, key) ==
    IF v.t = "object" THEN LastMember(v.m, key, Len(v.m)) ELSE Undefined

\* JSON.parse
NoParse == [ok |-> FALSE, v |-> Undefined, p |-> 0]
Parsed(v, p) == [ok |-> TRUE, v |-> v, p |-> p]

RECURSIVE JsonValue(_, _), JsonMembers(_, _, _), JsonElements(_, _, _)

\* the value that starts at lexeme p of ts, and the position after it
JsonValue(ts, p) ==
    IF p > Len(ts) THEN NoParse
    ELSE LET t == ts[p] IN
         CASE t[1] = "str" -> Parsed(StrOf(t), p + 1)
           [] t[1] = "num" -> Parsed(Num(t[2]), p + 1)
           [] t = Word("null") -> Parsed(Null, p + 1)
           [] t \in {Word("true"), Word("false")} -> Parsed(Bool(t[2]), p + 1)
           [] t = Punct("{") -> JsonMembers(ts, p + 1, << >>)
           [] t = Punct("[") -> JsonElements(ts, p + 1, << >>)
           [] OTHER -> NoParse

\* the members of an object from lexeme p on, acc being those read so far
JsonMembers(ts, p, acc) ==
    IF p > Len(ts) THEN NoParse
    ELSE IF ts[p] = Punct("}")
    THEN IF acc = << >> THEN Parsed(Obj(acc), p + 1) ELSE NoParse
    ELSE IF ts[p][1] = "str" /\ p + 1 <= Len(ts) /\ ts[p + 1] = Punct(":")
    THEN LET r == JsonValue(ts, p + 2) IN
         IF ~r.ok \/ r.p > Len(ts) THEN NoParse
         ELSE LET more == Append(acc, << ts[p][2], r.v >>) IN
              IF ts[r.p] = Punct(",") THEN JsonMembers(ts, r.p + 1, more)
              ELSE IF ts[r.p] = Punct("}") THEN Parsed(Obj(more), r.p + 1)
              ELSE NoParse
    ELSE NoParse

\* the elements of an array from lexeme p on
JsonElements(ts, p, acc) ==
    IF p > Len(ts) THEN NoParse
    ELSE IF ts[p] = Punct("]")
    THEN IF acc = << >> THEN Parsed(Arr(acc), p + 1) ELSE NoParse
    ELSE LET r == JsonValue(ts, p) IN
         IF ~r.ok \/ r.p > Len(ts) THEN NoParse
         ELSE LET more == Append(acc, << "#", r.v >>) IN
              IF ts[r.p] = Punct(",") THEN JsonElements(ts, r.p + 1, more)
              ELSE IF ts[r.p] = Punct("]") THEN Parsed(Arr(more), r.p + 1)
              ELSE NoParse

IsWhitespace(lexeme) == lexeme = NL

\* JSON.parse(text): one value with whitespace around its lexemes, or a
\* SyntaxError (ok is FALSE)
JsonParse(text) ==
    LET ts == SelectSeq(text, LAMBDA l : ~IsWhitespace(l))
        r == JsonValue(ts, 1)
    IN  IF r.ok /\ r.p = Len(ts) + 1 THEN r ELSE NoParse

\* rawText.replace(/^```json\n?/i, ''): a fence at the start of the text
\* that is labelled json, in any case, goes with the newline after it
LowerCase(w) == IF w \in {"JSON", "Json"} THEN "json" ELSE w

StripLeadingFence(text) ==
    IF /\ Len(text) >= 2
       /\ text[1] = Fence
       /\ text[2][1] = "word" /\ LowerCase(text[2][2]) = "json"
    THEN IF Len(text) >= 3 /\ text[3] = NL
         THEN SubSeq(text, 4, Len(text))
         ELSE SubSeq(text, 3, Len(text))
    ELSE text

\* .replace(/\n?```$/, ''): a fence at the very end of the text goes with
\* the newline before it
StripTrailingFence(text) ==
    IF Len(text) >= 1 /\ text[Len(text)] = Fence
    THEN IF Len(text) >= 2 /\ text[Len(text) - 1] = NL
         THEN SubSeq(text, 1, Len(text) - 2)
         ELSE SubSeq(text, 1, Len(text) - 1)
    ELSE text

CleanedText(rawText) == StripTrailingFence(StripLeadingFence(rawText))

AIResponse(text, structuredData) ==
    [text |-> text, structuredData |-> structuredData]

NoResponse == AIResponse(Undefined, Undefined)

DefaultText == Str(<< Chars("Here is the code.") >>)

\* parsed.text ?? "Here is the code."
TextOfNullish(parsed) ==
    IF Get(parsed, "text").t \in {"null", "undefined"}
    THEN DefaultText
    ELSE Get(parsed, "text")

\* parsed.text || "Here is the code."
TextOf(parsed) ==
    IF Truthy(Get(parsed, "text")) THEN Get(parsed, "text") ELSE DefaultText

\* parsed.structuredData
StructuredDataOfAsDecoded(parsed) == Get(parsed, "structuredData")

\* parsed.structuredData || null
StructuredDataOf(parsed) ==
    IF Truthy(Get(parsed, "structuredData"))
    THEN Get(parsed, "structuredData")
    ELSE Null

\* an answer with the cleaned text
UndecodableResponseCleaned(rawText, cleanedText) ==
    AIResponse(Str(cleanedText), Null)

\* the catch block of the decoding: the answer is the raw text
UndecodableResponse(rawText, cleanedText) == AIResponse(Str(rawText), Null)

\* the decoding of a non-empty reply: JSON.parse of the cleaned text and
\* the reads of parsed.text and parsed.structuredData are in one try block
ParseReply(rawText) ==
    LET cleanedText == CleanedText(rawText)
        r == JsonParse(cleanedText)
    IN  IF r.ok /\ ~PropertyReadThrows(r.v)
        THEN [decoded |-> TRUE, parsed |-> r.v,
              response |-> AIResponse(TextOf(r.v), StructuredDataOf(r.v))]
        ELSE [decoded |-> FALSE, parsed |-> Undefined,
              response |-> UndecodableResponse(rawText, cleanedText)]

\* the providers of AIModelConfig, and a value outside of them
Providers == {"google", "groq", "openai"}
ProviderValues == Providers \cup {"anthropic"}

Credentials == {"API_KEY", "GROQ_API_KEY", "OPENAI_API_KEY"}
AllKeys == [Credentials -> BOOLEAN]

\* every provider reading API_KEY
CredentialOfShared(provider) == "API_KEY"

\* the environment variable a provider's call reads
CredentialOf(provider) ==
    CASE provider = "google" -> "API_KEY"
      [] provider = "groq" -> "GROQ_API_KEY"
      [] OTHER -> "OPENAI_API_KEY"

\* !process.env.API_KEY, !apiKey
MissingCredential(provider, k) == ~k[CredentialOf(provider)]

MsgMissingCredential(provider) ==
    CASE provider = "google" ->
             << Chars("API_KEY"), Chars(" (Google) is missing.") >>
      [] provider = "groq" ->
             << Chars("GROQ_API_KEY"), Chars(" is missing in .env") >>
      [] OTHER ->
             << Chars("OPENAI_API_KEY"), Chars(" is missing in .env") >>

MsgUnsupported == << Chars("Unsupported provider") >>
MsgNoResponse == << Chars("No response from AI") >>

\* provider.toUpperCase()
UpperCase(provider) == IF provider = "groq" THEN "GROQ" ELSE "OPENAI"

\* `${provider.toUpperCase()} API Error: ${err.error?.message ||
\* response.statusText}`
MsgApiError(provider, message, statusText) ==
    << Chars(UpperCase(provider)), Chars(" API Error: ") >>
    \o (IF message # EmptyText THEN message ELSE statusText)

\* data.choices[0]?.message?.content || "", response.text || ""
ReplyText(content) == IF FalsyBytes(content) THEN EmptyText ELSE content[1]

\* error.message || String(error)
ErrorMessage(message) ==
    IF message # EmptyText THEN message ELSE << Chars("Error") >>

MsgCheckKeys == Chars(". Please check your API keys and configuration.")

\* an answer that leaves the failure's message out
ErrorResponseGeneric(provider, message) ==
    AIResponse(Str(<< Chars("Error ("), Chars(provider), Chars("): "),
                      MsgCheckKeys >>), Null)

\* the catch block of chatWithAI
ErrorResponse(provider, message) ==
    AIResponse(Str(<< Chars("Error ("), Chars(provider), Chars("): ") >>
                   \o ErrorMessage(message) \o << MsgCheckKeys >>), Null)

\* the failures of a call, all of them thrown inside the try block
FailureKinds ==
    {"unsupported", "credential", "network", "status", "malformed", "empty"}

CaughtByOuterTry(kind) == kind \in FailureKinds

\* the texts a provider may answer with: a JSON text or prose, bare or
\* with a fence line before it and a fence line after it
Member(key, value) == << StrLit(key), Punct(":") >> \o value
Object(members) == << Punct("{") >> \o members \o << Punct("}") >>
Comma == << Punct(",") >>

TextHi == Member("text", << StrLit("hi") >>)
FullProposal ==
    Object(Member("action", << StrLit("COMMIT") >>) \o Comma
           \o Member("file_path", << StrLit("a.txt") >>) \o Comma
           \o Member("commit_message", << StrLit("m") >>) \o Comma
           \o Member("new_content", << StrLit("h") >>))
PathlessProposal ==
    Object(Member("action", << StrLit("COMMIT") >>) \o Comma
           \o Member("new_content", << StrLit("h") >>))
ContentlessProposal ==
    Object(Member("action", << StrLit("COMMIT") >>) \o Comma
           \o Member("file_path", << StrLit("a.txt") >>))
ChatAction == Object(Member("action", << StrLit("CHAT") >>))

JsonBodies ==
    {Object(TextHi),
     Object(<< NL >> \o TextHi \o << NL >>),
     Object(Member("text", << StrLit("") >>)),
     Object(Member("text", << NumLit("5") >>)),
     Object(Member("text", << NumLit("0") >>)),
     Object(Member("text", << Word("null") >>)),
     Object(Member("text", Object(EmptyText))),
     Object(TextHi \o Comma \o Member("structuredData", << Word("null") >>)),
     Object(TextHi \o Comma \o Member("structuredData", FullProposal)),
     Object(TextHi \o Comma \o Member("structuredData", PathlessProposal)),
     Object(TextHi \o Comma \o Member("structuredData", ContentlessProposal)),
     Object(TextHi \o Comma \o Member("structuredData", ChatAction)),
     Object(TextHi \o Comma \o Member("structuredData", << StrLit("oops") >>)),
     Object(TextHi \o Comma
            \o Member("structuredData", << Punct("["), NumLit("1"), Punct("]") >>)),
     Object(Member("structuredData", FullProposal)),
     Object(EmptyText),
     << Word("null") >>,
     << NumLit("5") >>,
     << StrLit("hi") >>,
     << Punct("["), StrLit("hi"), Punct("]") >>}

ProseBodies ==
    {<< Word("Hello") >>,
     << Punct("{") >> \o TextHi,
     Object(TextHi \o Comma),
     Object(<< Word("text"), Punct(":"), StrLit("hi") >>),
     Object(TextHi) \o << NL, Word("Done") >>,
     EmptyText}

ReplyBodies == JsonBodies \cup ProseBodies

\* an opening fence line: labelled json, labelled otherwise, or bare
FenceLines ==
    {<< Fence, Word("json"), NL >>, << Fence, Word("JSON"), NL >>,
     << Fence, Word("js"), NL >>, << Fence, NL >>}

Openings == FenceLines \cup {EmptyText}
Closings == {EmptyText, << NL, Fence >>, << NL, Fence, NL >>}

RawTexts == {o \o b \o c : o \in Openings, b \in ReplyBodies, c \in Closings}

\* the content field of a provider's answer: missing, or a text
ReplyContents == {None} \cup {Some(t) : t \in RawTexts}

\* the messages of an upstream error body (none: EmptyText) and the status
\* texts of a response
UpstreamMessages == {EmptyText, << Chars("Rate limit reached") >>}
StatusTexts == {EmptyText, << Chars("Too Many Requests") >>}
MsgFailedToFetch == << Chars("Failed to fetch") >>
MsgNotJson == << Chars("Unexpected token < in JSON at position 0") >>
MsgNoChoices ==
    << Chars("Cannot read properties of undefined (reading '0')") >>

\* a chatWithAI call that has not started
IdleChat ==
    [pc |-> "idle", provider |-> "google",
     requests |-> 0,           \* outbound requests made
     failure |-> "",           \* the kind of the failure, if any
     thrown |-> EmptyText,     \* the message of the error thrown
     returned |-> FALSE,       \* the call returned an AIResponse
     escaped |-> FALSE,        \* the call threw to its caller
     rawText |-> EmptyText,
     decoded |-> FALSE,        \* JSON.parse and the field reads went through
     parsed |-> Undefined,
     response |-> NoResponse]

(***************************************************************************)
(* The file tree service: getRepoFileTree reads the branch reference and   *)
(* the recursive tree of the repository and keeps the paths of its files.  *)
(*                                                                         *)
(* A path is a sequence of pieces of text, cut where '.git',               *)
(* 'node_modules' and 'package-lock.json' begin and end.                   *)
(***************************************************************************)
\* the longest tree the host answers with
MaxTree == 2

Item(type, path) == [type |-> type, path |-> path]

\* item.path of an item without a path
NoPath == << >>

TreeItems ==
    {Item("blob", << "src/a.ts" >>),
     Item("tree", << "src" >>),
     Item("blob", << ".git", "ignore" >>),
     Item("blob", << "web/", "node_modules", "/x.js" >>),
     Item("blob", << "package-lock.json" >>),
     Item("blob", << "docs/", ".git", "keep" >>),
     Item("blob", NoPath)}

RECURSIVE SeqsUpTo(_, _)
SeqsUpTo(S, n) ==
    IF n = 0 THEN {<< >>}
    ELSE LET shorter == SeqsUpTo(S, n - 1)
         IN  shorter \cup {Append(q, x) : q \in shorter, x \in S}

Trees == SeqsUpTo(TreeItems, MaxTree)

\* the tokens a caller passes: none, the empty string, a token
TokenArguments == {None, Some(""), Some("t")}

\* !(token || process.env.GITHUB_TOKEN)
TokenMissing(token, e) == FalsyStr(token) /\ ~e.token

\* path.includes(piece)
Includes(path, piece) == \E n \in 1..Len(path) : path[n] = piece

\* a filter that lets the lock file through
KeepPathLockfile(path) ==
    /\ path # NoPath
    /\ path[1] # ".git"
    /\ ~Includes(path, "node_modules")

\* path && !path.startsWith('.git') && !path.includes('node_modules')
\*      && !path.includes('package-lock.json')
KeepPath(path) ==
    /\ path # NoPath
    /\ path[1] # ".git"
    /\ ~Includes(path, "node_modules")
    /\ ~Includes(path, "package-lock.json")

IsBlob(item) == item.type = "blob"

\* treeData.tree.filter(blob).map(path).filter(meaningful)
Files(t) ==
    LET blobs == SelectSeq(t, IsBlob)
        paths == [n \in 1..Len(blobs) |-> blobs[n].path]
    IN  SelectSeq(paths, KeepPath)

\* a getRepoFileTree call that has not started
IdleTree ==
    [pc |-> "idle", token |-> None,
     requests |-> 0,        \* requests made to the host
     failure |-> "",        \* what failed, if anything
     fetched |-> << >>,     \* the tree the host answered with
     returned |-> FALSE,    \* the call returned a list
     escaped |-> FALSE,     \* the call threw to its caller
     files |-> << >>]       \* the list returned

(***************************************************************************)
(* The CommitCard of a proposal: the path field, the confirmation          *)
(* checkbox, the commit button, the status and the recent commits.         *)
(***************************************************************************)
\* .slice(0, 5) of saveToHistory
HistoryLimit == 5

HistoryItem(path, msg, timestamp) ==
    [filePath |-> path, message |-> msg, timestamp |-> timestamp]

\* the recent commits other cards have left in localStorage: n of them,
\* newest first
Prior(n) == [i \in 1..n |-> HistoryItem("old.txt", "old", n + 1 - i)]
PriorHistories == {Prior(0), Prior(HistoryLimit)}

\* Date.now() when the card is mounted: later than every stored commit
MountTime == HistoryLimit + 1

\* a history with the new item at its end
UpdatedHistoryAppended(newItem, recentCommits) ==
    SubSeq(Append(recentCommits, newItem), 1,
           IF Len(recentCommits) + 1 < HistoryLimit
           THEN Len(recentCommits) + 1 ELSE HistoryLimit)

\* [newItem, ...recentCommits].slice(0, 5)
UpdatedHistory(newItem, recentCommits) ==
    SubSeq(<< newItem >> \o recentCommits, 1,
           IF Len(recentCommits) + 1 < HistoryLimit
           THEN Len(recentCommits) + 1 ELSE HistoryLimit)

\* data.commit_message || `Update ${filePath}`
HistoryMessage(data, filePath) ==
    IF FalsyStr(data.commit_message)
    THEN "Update " \o filePath
    ELSE data.commit_message[1]

\* an error shown without its message
CardErrorMessageGeneric(message) == "Failed to commit changes."

\* error.message || 'Failed to commit changes.'
CardErrorMessage(message) == OrElse(message, "Failed to commit changes.")

\* useState(data.file_path || '')
InitialFilePath(data) ==
    IF FalsyStr(data.file_path) THEN "" ELSE data.file_path[1]

\* what the user may type into the path field
TypedPaths == {"", FilePath}

\* a button that does not look at the checkbox, before a handler that does
\* not either
CommitClickableUnconfirmed(c) == c.status \notin {"loading", "success"}

\* a button that stays after a success
CommitClickableAfterSuccess(c) == c.isChecked /\ c.status # "loading"

\* the commit button is rendered (status !== 'success'), it is not disabled
\* (!isChecked || status === 'loading'), and handleCommitClick goes on
\* (if (!isChecked) return)
CommitClickable(c) ==
    /\ c.status # "success"
    /\ ~(~c.isChecked \/ c.status = "loading")
    /\ c.isChecked

\* the checkbox is rendered and not disabled
CheckboxEnabled(c) == c.status # "success" /\ c.status # "loading"

\* the path field is not disabled
PathEnabled(c) == c.status # "loading" /\ c.status # "success"

\* a card that is not on the page
IdleCard ==
    [mounted |-> FALSE,
     data |-> Body(None, None, None),
     filePath |-> "",
     isChecked |-> FALSE,
     status |-> "idle",
     errorMessage |-> "",
     call |-> 0,              \* the handleCommit call of the last click
     clicks |-> 0,            \* handleCommitClick runs that went on
     unconfirmed |-> FALSE,   \* a click went on with the box unchecked
     loaded |-> << >>,        \* the recent commits read at mount
     recentCommits |-> << >>,
     stored |-> << >>]        \* localStorage 'commit_history'
(***************************************************************************)
(* App: the transcript on the page, isLoading, the current session, the    *)
(* code of the editor, the handleSend and handleLoadSession calls under    *)
(* way and the history store.                                              *)
(***************************************************************************)
\* the handleSend calls and the handleLoadSession calls of a behaviour
MaxSends == 2
MaxLoads == 1
Sends == 1..MaxSends
Loads == 1..MaxLoads

\* currentSessionId null
NoSession == 0
\* currentCode ''
NoCode == 0
\* the preview_content stored with session 1, and the one of a reply
StoredCode == 1
ReplyCode == 2

\* the sessions of the store: 1 and 2 are there from the start, the others
\* are created by handleSend
StoredSessions == {1, 2}
Sessions == 1..(2 + MaxSends)

\* a message of the transcript: turn is the handleSend call it came from, 0
\* for the greeting and for the rows of the store; code is the
\* preview_content of its structuredData
Message(role, turn, code) == [role |-> role, turn |-> turn, code |-> code]

InitialMessage == Message("model", 0, NoCode)

InitialStore ==
    [sid \in Sessions |->
        CASE sid = 1 -> << Message("user", 0, NoCode),
                           Message("model", 0, StoredCode) >>
          [] sid = 2 -> << Message("user", 0, NoCode),
                           Message("model", 0, NoCode) >>
          [] OTHER -> << >>]

\* what the user may have typed when the form is submitted
Inputs == {"", " ", "hi"}

\* input.trim()
Trim(input) == IF input = " " THEN "" ELSE input

\* if (!input.trim() || isLoading) return
AcceptsSubmit(input, isLoading) == ~(Trim(input) = "" \/ isLoading)

\* the transcript with the reply twice
WithMessageTwice(messages, message) == Append(Append(messages, message), message)

\* setMessages(prev => [...prev, message])
WithMessage(messages, message) == Append(messages, message)

\* dbMessages.map(...): the messages of the store as messages of the page
UiMessages(dbMessages) ==
    [n \in 1..Len(dbMessages) |->
        Message(dbMessages[n].role, 0, dbMessages[n].code)]

RECURSIVE LastCode(_, _)
\* [...uiMessages].reverse().find(m => m.structuredData?.preview_content)
LastCode(messages, n) ==
    IF n = 0 THEN NoCode
    ELSE IF messages[n].code # NoCode THEN messages[n].code
    ELSE LastCode(messages, n - 1)

\* if (lastCodeMessage?.structuredData?.preview_content) setCurrentCode(...)
RestoredCode(messages, currentCode) ==
    IF LastCode(messages, Len(messages)) # NoCode
    THEN LastCode(messages, Len(messages))
    ELSE currentCode

\* a handleSend call that has not started
IdleSend ==
    [pc |-> "idle",
     activeSessionId |-> NoSession,
     userSavedIn |-> NoSession,    \* the session the user message went to
     replySavedIn |-> NoSession,   \* the session the reply went to
     code |-> NoCode,              \* the preview_content of the reply
     userAppends |-> 0,            \* user messages put on the page
     modelAppends |-> 0]           \* model messages put on the page

\* a handleLoadSession call that has not started
IdleLoad == [pc |-> "idle", sid |-> NoSession]

IdleApp ==
    [messages |-> << InitialMessage >>,
     isLoading |-> FALSE,
     currentSessionId |-> NoSession,
     currentCode |-> NoCode,
     created |-> 0,                \* sessions created so far
     sends |-> [n \in Sends |-> IdleSend],
     loads |-> [l \in Loads |-> IdleLoad],
     store |-> InitialStore]

(***************************************************************************)
(* The state.                                                              *)
(***************************************************************************)
VARIABLES
    which,   \* the endpoint implementation deployed: "route" or "handler"
    env,     \* which of GITHUB_TOKEN, GITHUB_OWNER, GITHUB_REPO are set
    remote,  \* the remote repository: path -> entry
    ext,     \* changes made to the remote file by other writers so far
    inv,     \* the endpoint invocations
    calls,   \* the handleCommit calls of the browser
    keys,    \* which of API_KEY, GROQ_API_KEY, OPENAI_API_KEY are set
    chat,    \* the chatWithAI call
    tree,    \* the getRepoFileTree call
    card,    \* the CommitCard of a proposal
    app      \* the state of App and its handleSend and handleLoadSession calls

vars == << which, env, remote, ext, inv, calls, keys, chat, tree, card, app >>

\* the state of the file tree service and of the user interface
uiVars == << tree, card, app >>

\* the state of the chat service
chatVars == << keys, chat >>

\* an invocation that has not started
IdleInv ==
    [pc |-> "idle", method |-> "POST", hasBody |-> FALSE,
     body |-> Body(None, None, None), caller |-> 0,
     sha |-> None,            \* let sha: string | undefined
     reads |-> 0,             \* getContent calls made
     readRes |-> "none",      \* how the read ended: file, dir, 404, fault
     readSha |-> None,        \* the sha of the data the read returned
     writes |-> 0,            \* createOrUpdateFileContents calls made
     sentSha |-> None,        \* the sha argument of the write
     writeRes |-> "none",     \* how the write ended: ok, rejected, fault
     existed |-> FALSE,       \* the path held a file when the write was made
     stale |-> FALSE,         \* the marker read was not the marker at the write
     changes |-> 0,           \* changes of the remote file since the read
     overtaken |-> FALSE,     \* another invocation wrote since the read
     clobbered |-> FALSE,     \* the failed write changed the remote file
     landed |-> FALSE,        \* the write left new_content in the remote file
     resps |-> 0,             \* responses produced
     resp |-> NoResp,
     upstream |-> "",         \* message of the error the catch block got
     logs |-> {}]             \* console.error lines

\* a handleCommit call that has not started
IdleCall ==
    [pc |-> "idle", data |-> Body(None, None, None),
     request |-> Body(None, None, None),
     fetches |-> 0, inv |-> 0, error |-> ""]

\* what the path may hold on the remote host
Entries == {Absent, Dir, File(ContentH)}

Init ==
    /\ which \in {"route", "handler"}
    /\ env \in [token : BOOLEAN, owner : BOOLEAN, repo : BOOLEAN]
    /\ remote \in [{FilePath} -> Entries]
    /\ ext = 0
    /\ inv = [i \in Invs |-> IdleInv]
    /\ calls = [k \in Calls |-> IdleCall]
    /\ keys = [c \in Credentials |-> TRUE]
    /\ chat = IdleChat
    /\ tree = IdleTree
    /\ card = IdleCard
    /\ app = IdleApp

Path(i) == inv[i].body.file_path[1]

\* the endpoint answers and ends
Answer(r, response, lines) ==
    [r EXCEPT !.pc = "done", !.resps = @ + 1, !.resp = response,
              !.logs = @ \cup lines]

(***************************************************************************)
(* A request arrives and the endpoint runs up to its first remote call:    *)
(* method check (handler), body, field validation, configuration.          *)
(***************************************************************************)
Started(r, method, hasBody, body, caller) ==
    [r EXCEPT !.method = method, !.hasBody = hasBody, !.body = body,
              !.caller = caller]

Entry(r) ==
    IF MethodNotAllowed(which, r.method) THEN
        Answer(r, Resp(405, FALSE, "", "Method Not Allowed"), {})
    ELSE IF DestructureThrows(r.hasBody) THEN
        Answer([r EXCEPT !.upstream = MsgTypeError],
               CatchResponse(which, MsgTypeError), {"commit error"})
    ELSE IF MissingFields(r.body) THEN
        Answer(r, Resp(400, FALSE, "", MsgMissingFields(which)), {})
    ELSE IF MissingConfig(env) THEN
        Answer(r, Resp(500, FALSE, "", MsgConfig), {})
    ELSE [r EXCEPT !.pc = "read"]

Receive(i) ==
    /\ inv[i].pc = "idle"
    /\ \A j \in Invs : j < i => inv[j].pc # "idle"
    /\ \E method \in Methods, hasBody \in BOOLEAN, body \in RequestBodies :
        /\ which = "route" => method = "POST"
        /\ ~hasBody => body = Body(None, None, None)
        /\ method # "POST" => ~hasBody
        /\ inv' = [inv EXCEPT ![i] = Entry(Started(@, method, hasBody, body, 0))]
    /\ UNCHANGED << which, env, remote, ext, calls >>
    /\ UNCHANGED chatVars
    /\ UNCHANGED uiVars

(***************************************************************************)
(* Step 1 of the endpoint: octokit.repos.getContent and what follows it.   *)
(***************************************************************************)
AfterRead(r, res) ==
    IF res.ok THEN
        [r EXCEPT !.pc = "write", !.sha = ShaFromData(res),
                  !.readRes = IF res.isArray THEN "dir" ELSE "file"]
    ELSE
        LET lines == IF ReadErrorLogged(res.status)
                     THEN {"error checking file"} ELSE {}
            seen == [r EXCEPT !.readRes = IF res.status = 404 THEN "404" ELSE "fault"]
        IN  IF ReadErrorRethrown(which, res.status)
            THEN Answer([seen EXCEPT !.upstream = res.message],
                        CatchResponse(which, res.message),
                        lines \cup {"commit error"})
            ELSE [seen EXCEPT !.pc = "write", !.logs = @ \cup lines]

GetContent(i) ==
    /\ inv[i].pc = "read"
    /\ \E fault \in BOOLEAN :
        LET res == IF fault THEN RemoteGetContentFault
                   ELSE RemoteGetContent(remote[Path(i)])
            r == [inv[i] EXCEPT !.reads = @ + 1, !.readSha = res.sha]
        IN  inv' = [inv EXCEPT ![i] = AfterRead(r, res)]
    /\ UNCHANGED << which, env, remote, ext, calls >>
    /\ UNCHANGED chatVars
    /\ UNCHANGED uiVars

(***************************************************************************)
(* Step 2 of the endpoint: octokit.repos.createOrUpdateFileContents and    *)
(* the response.                                                           *)
(***************************************************************************)
AfterWrite(r, res) ==
    IF res.ok
    THEN Answer([r EXCEPT !.writeRes = "ok"], SuccessResponse(r.sha), {})
    ELSE Answer([r EXCEPT !.writeRes = IF res.status = 500 THEN "fault" ELSE "rejected",
                          !.upstream = res.message],
                CatchResponse(which, res.message), {"commit error"})

\* the revision marker of an entry: the blob id of a file, else none
Marker(entry) == IF entry.kind = "file" THEN Some(BlobSha(entry.content)) ELSE None

\* the invocations that have read and not yet written see the file change
Bump(r, byInvocation) ==
    IF r.pc = "write"
    THEN [r EXCEPT !.changes = IF @ < 2 THEN @ + 1 ELSE @,
                   !.overtaken = @ \/ byInvocation]
    ELSE r

Overtake(r) == IF r.pc = "write" THEN [r EXCEPT !.overtaken = TRUE] ELSE r

CreateOrUpdate(i) ==
    /\ inv[i].pc = "write"
    /\ \E fault \in BOOLEAN :
        LET entry == remote[Path(i)]
            sha == ShaArgument(inv[i].sha)
            res == IF fault THEN RemotePutContentFault(entry)
                   ELSE RemotePutContent(entry, sha, Base64(inv[i].body.new_content[1]))
            r == [inv[i] EXCEPT
                    !.writes = @ + 1, !.sentSha = sha,
                    !.existed = entry.kind = "file",
                    !.stale = inv[i].readRes \in {"file", "404"}
                              /\ Marker(entry) # inv[i].sha,
                    !.clobbered = ~res.ok /\ res.entry # entry,
                    !.landed = res.entry = File(inv[i].body.new_content[1])]
        IN  /\ inv' = [j \in Invs |->
                        IF j = i THEN AfterWrite(r, res)
                        ELSE IF res.entry # entry THEN Bump(inv[j], TRUE)
                        ELSE IF res.ok THEN Overtake(inv[j])
                        ELSE inv[j]]
            /\ remote' = [remote EXCEPT ![Path(i)] = res.entry]
    /\ UNCHANGED << which, env, ext, calls >>
    /\ UNCHANGED chatVars
    /\ UNCHANGED uiVars

(***************************************************************************)
(* Another writer changes the remote file: deletes it, or writes "h".      *)
(***************************************************************************)
ExternalChange ==
    /\ ext < MaxExt
    /\ remote[FilePath].kind # "dir"
    /\ \E e \in {Absent, File(ContentH)} :
        /\ e # remote[FilePath]
        /\ remote' = [remote EXCEPT ![FilePath] = e]
    /\ ext' = ext + 1
    /\ inv' = [j \in Invs |-> Bump(inv[j], FALSE)]
    /\ UNCHANGED << which, env, calls >>
    /\ UNCHANGED chatVars
    /\ UNCHANGED uiVars

Next ==
    \/ \E i \in Invs : Receive(i)
    \/ \E i \in Invs : GetContent(i)
    \/ \E i \in Invs : CreateOrUpdate(i)
    \/ ExternalChange

Spec == Init /\ [][Next]_vars

(***************************************************************************)
(* The browser: handleCommit of App, which sends the proposal of a         *)
(* CommitCard to the commit endpoint with fetch('/api/commit').  The calls *)
(* are the successive commits of one card: its button is disabled while a  *)
(* call is outstanding, so a call starts after the one before has settled, *)
(* and every call carries the card's content and message with the path the *)
(* user has typed by then ({...data, file_path: filePath}).  Commits of    *)
(* other cards and other users are the other writers of ExternalChange and *)
(* the concurrent invocations of Spec.                                     *)
(***************************************************************************)
\* the proposals handed to handleCommit
Proposals ==
    {Body(Some(FilePath), Some(c), Some("m")) : c \in Contents}
    \cup {Body(Some(FilePath), Some(ContentH), m) : m \in {None, Some("")}}
    \cup {Body(p, Some(ContentH), Some("m")) : p \in {None, Some("")}}
    \cup {Body(Some(FilePath), c, Some("m")) : c \in {None, Some(EmptyBytes)}}
    \cup {Body(None, None, Some("m"))}

\* a check that forgets the content
InvalidCommitDataPathOnly(data) == FalsyStr(data.file_path)

\* if (!data.new_content || !data.file_path) throw
InvalidCommitData(data) == FalsyBytes(data.new_content) \/ FalsyStr(data.file_path)

MsgInvalidCommitData == "Invalid commit data: missing content or file path."

\* the message of the proposal, whatever it is
CommitMessageAsGiven(data) ==
    IF data.commit_message = None THEN "" ELSE data.commit_message[1]

\* commit_message: data.commit_message || `Update ${data.file_path}`
CommitMessage(data) ==
    IF FalsyStr(data.commit_message)
    THEN "Update " \o data.file_path[1]
    ELSE data.commit_message[1]

\* the body of the request
RequestOf(data) == Body(data.file_path, data.new_content, Some(CommitMessage(data)))

\* response.ok
ResponseOk(status) == status >= 200 /\ status <= 299

\* a throw that drops the error of the response
MsgCommitFailedGeneric(result) == "Failed to commit changes"

\* throw new Error(result.error || 'Failed to commit changes')
MsgCommitFailed(result) == OrElse(result.error, "Failed to commit changes")

\* what call k may be handed: any proposal, then the same with another path
CallData(k) ==
    IF k = 1 THEN Proposals
    ELSE {[calls[k - 1].data EXCEPT !.file_path = p] :
            p \in {None, Some(""), Some(FilePath)}}

\* handleCommit(data) up to its fetch, on the record c of the call
HandleCommitCall(c, data) ==
    IF InvalidCommitData(data)
    THEN [c EXCEPT !.pc = "thrown", !.data = data,
                   !.error = MsgInvalidCommitData]
    ELSE [c EXCEPT !.pc = "fetching", !.data = data,
                   !.request = RequestOf(data), !.fetches = @ + 1]

HandleCommit(k) ==
    /\ calls[k].pc = "idle"
    /\ \A j \in Calls : j < k => calls[j].pc \in {"thrown", "returned"}
    /\ \E data \in CallData(k) :
        calls' = [calls EXCEPT ![k] = HandleCommitCall(@, data)]
    /\ UNCHANGED << which, env, remote, ext, inv >>
    /\ UNCHANGED chatVars
    /\ UNCHANGED uiVars

\* the request of a call reaches the endpoint
Dispatch(k, i) ==
    /\ calls[k].pc = "fetching"
    /\ calls[k].inv = 0
    /\ inv[i].pc = "idle"
    /\ \A j \in Invs : j < i => inv[j].pc # "idle"
    /\ inv' = [inv EXCEPT ![i] = Entry(Started(@, "POST", TRUE, calls[k].request, k))]
    /\ calls' = [calls EXCEPT ![k].inv = i]
    /\ UNCHANGED << which, env, remote, ext >>
    /\ UNCHANGED chatVars
    /\ UNCHANGED uiVars

\* fetch rejects: the request never reaches the endpoint
FetchFails(k) ==
    /\ calls[k].pc = "fetching"
    /\ calls[k].inv = 0
    /\ calls' = [calls EXCEPT ![k].pc = "thrown", ![k].error = "Failed to fetch"]
    /\ UNCHANGED << which, env, remote, ext, inv >>
    /\ UNCHANGED chatVars
    /\ UNCHANGED uiVars

\* the response arrives: handleCommit returns, or throws on a non-OK status
Settle(k) ==
    /\ calls[k].pc = "fetching"
    /\ calls[k].inv # 0
    /\ inv[calls[k].inv].pc = "done"
    /\ LET result == inv[calls[k].inv].resp
       IN  calls' = [calls EXCEPT ![k] =
            IF ~ResponseOk(result.status)
            THEN [@ EXCEPT !.pc = "thrown", !.error = MsgCommitFailed(result)]
            ELSE [@ EXCEPT !.pc = "returned"]]
    /\ UNCHANGED << which, env, remote, ext, inv >>
    /\ UNCHANGED chatVars
    /\ UNCHANGED uiVars

NextClient ==
    \/ \E k \in Calls : HandleCommit(k)
    \/ \E k \in Calls, i \in Invs : Dispatch(k, i)
    \/ \E k \in Calls : FetchFails(k)
    \/ \E i \in Invs : GetContent(i)
    \/ \E i \in Invs : CreateOrUpdate(i)
    \/ \E k \in Calls : Settle(k)
    \/ ExternalChange

SpecClient == Init /\ [][NextClient]_vars

(***************************************************************************)
(* chatWithAI: the provider is chosen, its credential is checked, the      *)
(* request is made, the answer is decoded.                                 *)
(***************************************************************************)
\* the state of the commit endpoint and its callers
commitVars == << which, env, remote, ext, inv, calls >>

\* an error is thrown inside chatWithAI
Throw(c, kind, message) ==
    IF CaughtByOuterTry(kind)
    THEN [c EXCEPT !.pc = "done", !.failure = kind, !.thrown = message,
                   !.returned = TRUE,
                   !.response = ErrorResponse(c.provider, message)]
    ELSE [c EXCEPT !.pc = "done", !.failure = kind, !.thrown = message,
                   !.escaped = TRUE]

\* chatWithAI is called: the switch over the provider and the credential
\* check of the provider's helper, up to the outbound request
ChatWithAI(provider) ==
    /\ chat.pc = "idle"
    /\ LET c == [chat EXCEPT !.provider = provider] IN
       chat' = IF provider \notin Providers
               THEN Throw(c, "unsupported", MsgUnsupported)
               ELSE IF MissingCredential(provider, keys)
               THEN Throw(c, "credential", MsgMissingCredential(provider))
               ELSE [c EXCEPT !.pc = "calling", !.requests = 1]
    /\ UNCHANGED << commitVars, keys >>
    /\ UNCHANGED uiVars

\* the provider answers with success: the text of the answer is taken,
\* an empty one is a failure, another one is decoded
ProviderAnswers(content) ==
    /\ chat.pc = "calling"
    /\ LET rawText == ReplyText(content)
           r == ParseReply(rawText)
       IN  chat' = IF rawText = EmptyText
                   THEN Throw(chat, "empty", MsgNoResponse)
                   ELSE [chat EXCEPT !.pc = "done", !.rawText = rawText,
                                     !.decoded = r.decoded,
                                     !.parsed = r.parsed,
                                     !.returned = TRUE,
                                     !.response = r.response]
    /\ UNCHANGED << commitVars, keys >>
    /\ UNCHANGED uiVars

\* the provider answers with a non-success status
ProviderRejects ==
    /\ chat.pc = "calling"
    /\ \/ /\ chat.provider = "google"
          /\ \E m \in UpstreamMessages \ {EmptyText} :
                chat' = Throw(chat, "status", m)
       \/ /\ chat.provider # "google"
          /\ \E m \in UpstreamMessages, st \in StatusTexts :
                chat' = Throw(chat, "status",
                              MsgApiError(chat.provider, m, st))
       \/ /\ chat.provider # "google"
          /\ chat' = Throw(chat, "status", MsgNotJson)
    /\ UNCHANGED << commitVars, keys >>
    /\ UNCHANGED uiVars

\* the request is rejected by the network
NetworkFails ==
    /\ chat.pc = "calling"
    /\ chat' = Throw(chat, "network", MsgFailedToFetch)
    /\ UNCHANGED << commitVars, keys >>
    /\ UNCHANGED uiVars

\* the provider answers with success and a body without choices
MalformedAnswer ==
    /\ chat.pc = "calling"
    /\ chat.provider # "google"
    /\ chat' = Throw(chat, "malformed", MsgNoChoices)
    /\ UNCHANGED << commitVars, keys >>
    /\ UNCHANGED uiVars

InitChat ==
    /\ which = "route"
    /\ env = [token |-> TRUE, owner |-> TRUE, repo |-> TRUE]
    /\ remote = [p \in {FilePath} |-> Absent]
    /\ ext = 0
    /\ inv = [i \in Invs |-> IdleInv]
    /\ calls = [k \in Calls |-> IdleCall]
    /\ keys \in AllKeys
    /\ chat = IdleChat
    /\ tree = IdleTree
    /\ card = IdleCard
    /\ app = IdleApp

NextChat ==
    \/ \E provider \in ProviderValues : ChatWithAI(provider)
    \/ \E content \in ReplyContents : ProviderAnswers(content)
    \/ ProviderRejects
    \/ NetworkFails
    \/ MalformedAnswer

SpecChat == InitChat /\ [][NextChat]_vars

(***************************************************************************)
(* Properties of the commit endpoint and of handleCommit.                  *)
(***************************************************************************)
Done(i) == inv[i].pc = "done"

\* the request of invocation i lacks a field: no body at all, or a field
\* that is undefined or empty
LacksField(i) == ~inv[i].hasBody \/ MissingFields(inv[i].body)

\* C1: every POST request in which file_path, new_content or commit_message
\* is missing or empty is answered 400 with a 'Missing required fields'
\* error, and neither getContent nor createOrUpdateFileContents is called
C1_MissingFieldsAnswered400 ==
    \A i \in Invs :
        (Done(i) /\ inv[i].method = "POST" /\ LacksField(i)) =>
            /\ inv[i].resp.status = 400
            /\ inv[i].resp.error = MsgMissingFields(which)
            /\ inv[i].reads = 0
            /\ inv[i].writes = 0

\* C2: a proposal handed to handleCommit whose file_path or new_content is
\* missing or empty makes handleCommit throw, and no request is sent: no
\* fetch is made and no endpoint invocation has the call for its caller
C2_InvalidProposalThrowsWithoutRequest ==
    \A k \in Calls :
        (/\ calls[k].pc # "idle"
         /\ \/ FalsyStr(calls[k].data.file_path)
            \/ FalsyBytes(calls[k].data.new_content)) =>
            /\ calls[k].pc = "thrown"
            /\ calls[k].error = MsgInvalidCommitData
            /\ calls[k].fetches = 0
            /\ calls[k].inv = 0
            /\ \A i \in Invs : inv[i].caller # k

\* a call was handed a proposal without content, or without path, and threw
C2_Witness ==
    \E k \in Calls :
        /\ calls[k].pc = "thrown"
        /\ \/ FalsyBytes(calls[k].data.new_content)
           \/ FalsyStr(calls[k].data.file_path)

\* C3: when the read fails with a status other than 404 the failure is
\* logged and the write is still attempted in the same invocation
C3_ReadFailureDoesNotAbort ==
    \A i \in Invs :
        (Done(i) /\ inv[i].readRes = "fault") =>
            /\ "error checking file" \in inv[i].logs
            /\ inv[i].writes = 1

\* C4: after a 404 of the read nothing is logged or thrown for it, the
\* endpoint goes on to the write, the write carries no sha, and a write
\* that succeeds is answered 200 with success: true
C4_NotFoundProceedsToCreate ==
    \A i \in Invs :
        inv[i].readRes = "404" =>
            /\ inv[i].pc \in {"write", "done"}
            /\ inv[i].logs \cap {"error checking file"} = {}
            /\ inv[i].sha = None
            /\ Done(i) =>
                /\ inv[i].writes = 1
                /\ inv[i].sentSha = None
                /\ inv[i].writeRes = "ok" =>
                    /\ inv[i].resp.status = 200
                    /\ inv[i].resp.success
                    /\ inv[i].resp.error = ""

\* a read ended 404 and the write that followed created the file
C4_Witness ==
    \E i \in Invs :
        /\ inv[i].readRes = "404"
        /\ inv[i].writeRes = "ok"
        /\ inv[i].resp.status = 200
        /\ remote[FilePath] = File(inv[i].body.new_content[1])

\* C5: a successful commit reports 'File created successfully' when the
\* path held no file at the time of the write and 'File updated
\* successfully' when it held one
C5_CreatedOrUpdatedMessage ==
    \A i \in Invs :
        inv[i].resp.success =>
            inv[i].resp.message =
                IF inv[i].existed THEN "File updated successfully"
                ELSE "File created successfully"

\* one commit created the file and another one updated it
C5_Witness ==
    \E i, j \in Invs :
        /\ inv[i].resp.success /\ ~inv[i].existed
        /\ inv[j].resp.success /\ inv[j].existed

\* C6: the write carries a sha exactly when the read of the same invocation
\* returned a single file with a sha, and then it is that sha; after a 404,
\* a directory or a failed read the write carries none
C6_ShaOnlyFromOwnRead ==
    \A i \in Invs :
        inv[i].writes = 1 =>
            /\ inv[i].sentSha # None <=> inv[i].readRes = "file"
            /\ inv[i].readRes = "file" => inv[i].sentSha = inv[i].readSha
            /\ inv[i].readRes \in {"404", "dir", "fault"} => inv[i].sentSha = None

\* writes were made after a file was read, after a 404, after a directory
\* and after a failed read
C6_Witness ==
    /\ \E i \in Invs : inv[i].writes = 1 /\ inv[i].readRes = "file"
                       /\ inv[i].sentSha # None
    /\ \E i \in Invs : inv[i].writes = 1 /\ inv[i].readRes \in {"404", "dir", "fault"}

\* the messages with which the remote host rejects a write whose marker
\* is not the current one
StaleMessages == {MsgConflict, MsgShaMissing}

\* handleCommit call k has got the response of invocation i
SettledFor(k, i) == calls[k].inv = i /\ calls[k].pc \in {"thrown", "returned"}

\* C7: when the file's revision changes between the read and the write of a
\* commit, the remote host rejects the write, the endpoint answers 500 with
\* the upstream message and handleCommit throws an error with that message;
\* a complete commit whose read is still current at its write succeeds
C7_StaleWriteFailsFreshCommitSucceeds ==
    \A i \in Invs :
        /\ (Done(i) /\ inv[i].writes = 1 /\ inv[i].stale
                /\ inv[i].writeRes # "fault") =>
            /\ inv[i].writeRes = "rejected"
            /\ inv[i].upstream \in StaleMessages
            /\ inv[i].resp = Resp(500, FALSE, "", inv[i].upstream)
            /\ \A k \in Calls : SettledFor(k, i) =>
                /\ calls[k].pc = "thrown"
                /\ calls[k].error = inv[i].upstream
        /\ (Done(i) /\ inv[i].writes = 1 /\ inv[i].readRes \in {"file", "404"}
                /\ ~inv[i].stale /\ inv[i].writeRes # "fault") =>
            /\ inv[i].resp.status = 200
            /\ inv[i].resp.success
            /\ \A k \in Calls : SettledFor(k, i) => calls[k].pc = "returned"

\* a commit of the card failed on a stale marker and the card's next
\* commit of the same proposal succeeded
C7_Witness ==
    \E k1, k2 \in Calls :
        /\ k1 < k2
        /\ calls[k1].pc = "thrown"
        /\ calls[k1].inv # 0
        /\ inv[calls[k1].inv].stale
        /\ calls[k1].error \in StaleMessages
        /\ calls[k2].data = calls[k1].data
        /\ calls[k2].pc = "returned"

\* C8 as stated: an invocation that another invocation has overtaken (the
\* other wrote successfully between this one's read and write) fails
C8_AtMostOneWriteSucceeds ==
    \A j \in Invs :
        (Done(j) /\ inv[j].writes = 1 /\ inv[j].overtaken) =>
            /\ inv[j].writeRes # "ok"
            /\ ~inv[j].resp.success

\* C8 as amended: an overtaken invocation fails when the other write has
\* changed the file (one change since the read); in every case a write
\* whose marker is no longer the remote one is answered 500 without
\* success and leaves the remote file as it was
C8_OvertakenByChangeFails ==
    \A j \in Invs :
        (Done(j) /\ inv[j].writes = 1) =>
            /\ (inv[j].overtaken /\ inv[j].changes = 1
                    /\ inv[j].readRes \in {"file", "404"}) => inv[j].stale
            /\ inv[j].stale =>
                /\ inv[j].writeRes # "ok"
                /\ inv[j].resp.status = 500
                /\ ~inv[j].resp.success
                /\ ~inv[j].clobbered

\* two invocations read the existing file, one wrote another content and
\* the other was rejected, the first writer's content staying in place
C8_Witness ==
    \E i, j \in Invs :
        /\ i # j
        /\ inv[i].readRes = "file" /\ inv[i].writeRes = "ok"
        /\ inv[j].readRes = "file" /\ inv[j].overtaken /\ inv[j].changes = 1
        /\ inv[j].readSha = inv[i].readSha
        /\ inv[j].writeRes = "rejected"
        /\ inv[j].resp.status = 500
        /\ remote[FilePath] = File(inv[i].body.new_content[1])
        /\ inv[j].body.new_content # inv[i].body.new_content

\* the same for a file that did not exist: both reads ended 404
C8_WitnessAbsent ==
    \E i, j \in Invs :
        /\ i # j
        /\ inv[i].readRes = "404" /\ inv[i].writeRes = "ok"
        /\ inv[j].readRes = "404" /\ inv[j].overtaken
        /\ inv[j].writeRes = "rejected"
        /\ remote[FilePath] = File(inv[i].body.new_content[1])

\* the invocation of a call ran without a failure of the transport
Clean(i) == inv[i].readRes # "fault" /\ inv[i].writeRes # "fault"

\* C9: a card commits the same file_path, new_content and commit_message
\* twice in sequence and no other writer changes the file: after the first
\* success the file holds new_content and goes on holding it, and the
\* second commit, when its calls reach the host, succeeds and reports
\* 'File updated successfully'
C9_SameCommitTwice ==
    \A k \in Calls :
        (/\ k + 1 \in Calls
         /\ calls[k].pc = "returned"
         /\ calls[k + 1].data = calls[k].data
         /\ ext = 0) =>
            /\ inv[calls[k].inv].resp.success
            /\ remote[FilePath] = File(calls[k].data.new_content[1])
            /\ (/\ calls[k + 1].pc \in {"thrown", "returned"}
                /\ calls[k + 1].inv # 0
                /\ Clean(calls[k + 1].inv)) =>
                    /\ calls[k + 1].pc = "returned"
                    /\ inv[calls[k + 1].inv].resp.success
                    /\ inv[calls[k + 1].inv].resp.message = "File updated successfully"

\* the same proposal was committed twice and both commits succeeded
C9_Witness ==
    \E k \in Calls :
        /\ k + 1 \in Calls
        /\ calls[k].pc = "returned"
        /\ calls[k + 1].pc = "returned"
        /\ calls[k + 1].data = calls[k].data
        /\ ext = 0
        /\ inv[calls[k].inv].resp.message = "File created successfully"
        /\ inv[calls[k + 1].inv].resp.message = "File updated successfully"

\* C10: an invocation produces one response and makes at most one write; a
\* write that failed is not made again and is answered 500 with the
\* upstream message as the error
C10_OneResponseOneWrite ==
    \A i \in Invs :
        /\ inv[i].resps = (IF Done(i) THEN 1 ELSE 0)
        /\ inv[i].writes <= 1
        /\ Done(i) => inv[i].resp.status \in {200, 400, 405, 500}
        /\ inv[i].writeRes \in {"rejected", "fault"} =>
            /\ Done(i)
            /\ inv[i].writes = 1
            /\ inv[i].upstream # ""
            /\ inv[i].resp = Resp(500, FALSE, "", inv[i].upstream)

\* a write was rejected by the host and the invocation answered 500
C10_Witness ==
    \E i \in Invs :
        /\ inv[i].writeRes = "rejected"
        /\ inv[i].writes = 1
        /\ inv[i].resps = 1
        /\ inv[i].resp.status = 500
        /\ inv[i].resp.error \in StaleMessages

\* C11: a POST request with all three body fields present is answered 500
\* with the 'Server configuration error' message when GITHUB_TOKEN,
\* GITHUB_OWNER or GITHUB_REPO is not set, and no remote read or write is
\* made
C11_MissingConfigAnswered500 ==
    \A i \in Invs :
        (/\ inv[i].pc # "idle"
         /\ inv[i].method = "POST"
         /\ inv[i].hasBody
         /\ ~MissingFields(inv[i].body)
         /\ (~env.token \/ ~env.owner \/ ~env.repo)) =>
            /\ Done(i)
            /\ inv[i].resp = Resp(500, FALSE, "", MsgConfig)
            /\ inv[i].reads = 0
            /\ inv[i].writes = 0

\* a complete request was answered 500 although the token was set: the
\* owner or the repository was missing
C11_Witness ==
    \E i \in Invs :
        /\ Done(i)
        /\ inv[i].hasBody /\ ~MissingFields(inv[i].body)
        /\ env.token /\ (~env.owner \/ ~env.repo)
        /\ inv[i].resp.status = 500
        /\ inv[i].resp.error = MsgConfig

TreeFails(r, kind) ==
    [r EXCEPT !.pc = "done", !.failure = kind, !.returned = TRUE,
              !.files = << >>]

\* getRepoFileTree is called: getOctokit, then the getRef request
GetRepoFileTree(token) ==
    /\ tree.pc = "idle"
    /\ LET r == [tree EXCEPT !.token = token] IN
       tree' = IF TokenMissing(token, env)
               THEN TreeFails(r, "token")
               ELSE [r EXCEPT !.pc = "ref", !.requests = @ + 1]
    /\ UNCHANGED << commitVars, chatVars, card, app >>

\* the branch reference arrives: the getTree request is made
GetRefAnswers ==
    /\ tree.pc = "ref"
    /\ tree' = [tree EXCEPT !.pc = "tree", !.requests = @ + 1]
    /\ UNCHANGED << commitVars, chatVars, card, app >>

\* the branch reference lookup fails
GetRefFails ==
    /\ tree.pc = "ref"
    /\ tree' = TreeFails(tree, "ref")
    /\ UNCHANGED << commitVars, chatVars, card, app >>

\* the tree arrives
GetTreeAnswers(t) ==
    /\ tree.pc = "tree"
    /\ tree' = [tree EXCEPT !.pc = "done", !.fetched = t, !.returned = TRUE,
                            !.files = Files(t)]
    /\ UNCHANGED << commitVars, chatVars, card, app >>

\* the tree fetch fails
GetTreeFails ==
    /\ tree.pc = "tree"
    /\ tree' = TreeFails(tree, "tree")
    /\ UNCHANGED << commitVars, chatVars, card, app >>

InitTree ==
    /\ which = "route"
    /\ env \in [token : BOOLEAN, owner : {TRUE}, repo : {TRUE}]
    /\ remote = [p \in {FilePath} |-> Absent]
    /\ ext = 0
    /\ inv = [i \in Invs |-> IdleInv]
    /\ calls = [k \in Calls |-> IdleCall]
    /\ keys = [c \in Credentials |-> TRUE]
    /\ chat = IdleChat
    /\ tree = IdleTree
    /\ card = IdleCard
    /\ app = IdleApp

NextTree ==
    \/ \E token \in TokenArguments : GetRepoFileTree(token)
    \/ GetRefAnswers
    \/ GetRefFails
    \/ \E t \in Trees : GetTreeAnswers(t)
    \/ GetTreeFails

SpecTree == InitTree /\ [][NextTree]_vars

(***************************************************************************)
(* A turn and its CommitCard: the provider answers with a proposal, App    *)
(* renders a CommitCard for it, the user types a path, ticks the box and   *)
(* clicks; handleCommitClick calls handleCommit, which sends the request   *)
(* to the commit endpoint, and shows how the call ended.                   *)
(***************************************************************************)
MessagelessProposal ==
    Object(Member("action", << StrLit("COMMIT") >>) \o Comma
           \o Member("file_path", << StrLit("a.txt") >>) \o Comma
           \o Member("new_content", << StrLit("h") >>))

\* the answers of the provider in a turn that proposes something
CardReplies ==
    {Some(Object(TextHi \o Comma \o Member("structuredData", proposal))) :
        proposal \in {FullProposal, PathlessProposal, ContentlessProposal,
                      MessagelessProposal, ChatAction}}

\* msg.structuredData && msg.structuredData.action === 'COMMIT'
RendersCommitCard(response) ==
    /\ Truthy(response.structuredData)
    /\ Get(response.structuredData, "action") = Str(<< Chars("COMMIT") >>)

\* the string of a field of the proposal, if there is one
FieldString(v, key) ==
    LET f == Get(v, key)
    IN  IF f.t # "string" THEN None
        ELSE IF f.s = EmptyText THEN Some("")
        ELSE Some(f.s[1][2])

\* the bytes of a content
Utf8(text) ==
    CASE text = "h" -> ContentH
      [] text = "hi" -> ContentHi
      [] OTHER -> EmptyBytes

\* data={msg.structuredData}
ProposalOf(v) ==
    Body(FieldString(v, "file_path"),
         IF FieldString(v, "new_content") = None THEN None
         ELSE Some(Utf8(FieldString(v, "new_content")[1])),
         FieldString(v, "commit_message"))

\* the card of the reply is rendered and reads the stored history
MountCard(history) ==
    /\ chat.pc = "done"
    /\ ~card.mounted
    /\ RendersCommitCard(chat.response)
    /\ LET data == ProposalOf(chat.response.structuredData) IN
       card' = [card EXCEPT !.mounted = TRUE, !.data = data,
                            !.filePath = InitialFilePath(data),
                            !.loaded = history,
                            !.recentCommits = history,
                            !.stored = history]
    /\ UNCHANGED << commitVars, chatVars, tree, app >>

\* setIsChecked(e.target.checked)
ToggleCheck ==
    /\ card.mounted
    /\ CheckboxEnabled(card)
    /\ card' = [card EXCEPT !.isChecked = ~@]
    /\ UNCHANGED << commitVars, chatVars, tree, app >>

\* setFilePath(e.target.value)
TypePath(path) ==
    /\ card.mounted
    /\ PathEnabled(card)
    /\ path # card.filePath
    /\ card' = [card EXCEPT !.filePath = path]
    /\ UNCHANGED << commitVars, chatVars, tree, app >>

\* handleCommitClick up to the await: onCommit({...data, file_path: filePath})
CommitClick(k) ==
    /\ card.mounted
    /\ CommitClickable(card)
    /\ k = card.call + 1
    /\ calls[k].pc = "idle"
    /\ card' = [card EXCEPT !.status = "loading", !.errorMessage = "",
                            !.call = k, !.clicks = @ + 1,
                            !.unconfirmed = @ \/ ~card.isChecked]
    /\ calls' = [calls EXCEPT ![k] =
                    HandleCommitCall(@, [card.data EXCEPT
                                            !.file_path = Some(card.filePath)])]
    /\ UNCHANGED << which, env, remote, ext, inv, chatVars, tree, app >>

\* saveToHistory(path, msg) at time now
SaveToHistory(c, path, msg, now) ==
    LET updatedHistory ==
            UpdatedHistory(HistoryItem(path, msg, now), c.recentCommits)
    IN  [c EXCEPT !.recentCommits = updatedHistory,
                  !.stored = updatedHistory]

\* handleCommitClick after the await: the call returned or threw
CardSettles ==
    /\ card.mounted
    /\ card.status = "loading"
    /\ calls[card.call].pc \in {"thrown", "returned"}
    /\ card' =
        IF calls[card.call].pc = "returned"
        THEN [SaveToHistory(card, card.filePath,
                            HistoryMessage(card.data, card.filePath),
                            MountTime + card.call)
                EXCEPT !.status = "success"]
        ELSE [card EXCEPT !.status = "error",
                          !.errorMessage =
                              CardErrorMessage(calls[card.call].error)]
    /\ UNCHANGED << commitVars, chatVars, tree, app >>

InitCard ==
    /\ which \in {"route", "handler"}
    /\ env \in {[token |-> t, owner |-> TRUE, repo |-> TRUE] : t \in BOOLEAN}
    /\ remote \in [{FilePath} -> Entries]
    /\ ext = 0
    /\ inv = [i \in Invs |-> IdleInv]
    /\ calls = [k \in Calls |-> IdleCall]
    /\ keys = [c \in Credentials |-> TRUE]
    /\ chat = IdleChat
    /\ tree = IdleTree
    /\ card = IdleCard
    /\ app = IdleApp

NextCard ==
    \/ ChatWithAI("google")
    \/ \E content \in CardReplies : ProviderAnswers(content)
    \/ \E history \in PriorHistories : MountCard(history)
    \/ ToggleCheck
    \/ \E path \in TypedPaths : TypePath(path)
    \/ \E k \in Calls : CommitClick(k)
    \/ \E k \in Calls, i \in Invs : Dispatch(k, i)
    \/ \E k \in Calls : FetchFails(k)
    \/ \E i \in Invs : GetContent(i)
    \/ \E i \in Invs : CreateOrUpdate(i)
    \/ \E k \in Calls : Settle(k)
    \/ ExternalChange
    \/ CardSettles

SpecCard == InitCard /\ [][NextCard]_vars

(***************************************************************************)
(* App: handleSend, handleNewChat and handleLoadSession.  The provider     *)
(* call of handleSend is chatWithAI, which returns an AIResponse in every  *)
(* case; the calls of the history store return in every case, with or      *)
(* without an error of the store.                                          *)
(***************************************************************************)
\* finally { setIsLoading(false) }: the call is over and its locals are gone
SendEnds(a, n) ==
    [a EXCEPT !.isLoading = FALSE,
              !.sends[n].pc = "done",
              !.sends[n].activeSessionId = NoSession,
              !.sends[n].code = NoCode]

\* handleSend up to its first await
Submit(n, input) ==
    /\ app.sends[n].pc = "idle"
    /\ \A j \in Sends : j < n => app.sends[j].pc # "idle"
    /\ AcceptsSubmit(input, app.isLoading)
    /\ app' = [app EXCEPT
                !.messages = WithMessage(@, Message("user", n, NoCode)),
                !.isLoading = TRUE,
                !.sends[n].userAppends =
                    @ + Len(WithMessage(app.messages,
                                        Message("user", n, NoCode)))
                      - Len(app.messages),
                !.sends[n].activeSessionId = app.currentSessionId,
                !.sends[n].pc = IF app.currentSessionId = NoSession
                                THEN "creating" ELSE "savingUser"]
    /\ UNCHANGED << commitVars, chatVars, tree, card >>

\* createSession returns: the new session, or null
CreateSessionReturns(n, ok) ==
    /\ app.sends[n].pc = "creating"
    /\ app' = IF ok
              THEN [app EXCEPT !.created = @ + 1,
                               !.currentSessionId = 2 + app.created + 1,
                               !.sends[n].activeSessionId = 2 + app.created + 1,
                               !.sends[n].pc = "savingUser"]
              ELSE [app EXCEPT !.sends[n].pc = "calling"]
    /\ UNCHANGED << commitVars, chatVars, tree, card >>

\* saveMessage of the user message returns: chatWithAI is called
SaveUserReturns(n, ok) ==
    /\ app.sends[n].pc = "savingUser"
    /\ LET sid == app.sends[n].activeSessionId IN
       app' = IF ok
              THEN [app EXCEPT
                      !.store[sid] = Append(@, Message("user", 0, NoCode)),
                      !.sends[n].userSavedIn = sid,
                      !.sends[n].pc = "calling"]
              ELSE [app EXCEPT !.sends[n].pc = "calling"]
    /\ UNCHANGED << commitVars, chatVars, tree, card >>

\* chatWithAI returns: the reply is shown, its preview_content becomes the
\* code of the editor, the reply is saved when there is a session
ProviderReturns(n, code) ==
    /\ app.sends[n].pc = "calling"
    /\ LET shown == [app EXCEPT
                       !.messages = WithMessage(@, Message("model", n, code)),
                       !.currentCode = IF code # NoCode THEN code ELSE @,
                       !.sends[n].code = code,
                       !.sends[n].modelAppends =
                           @ + Len(WithMessage(app.messages,
                                               Message("model", n, code)))
                             - Len(app.messages)]
       IN  app' = IF app.sends[n].activeSessionId # NoSession
                  THEN [shown EXCEPT !.sends[n].pc = "savingReply"]
                  ELSE SendEnds(shown, n)
    /\ UNCHANGED << commitVars, chatVars, tree, card >>

\* saveMessage of the reply returns
SaveReplyReturns(n, ok) ==
    /\ app.sends[n].pc = "savingReply"
    /\ LET sid == app.sends[n].activeSessionId
           code == app.sends[n].code IN
       app' = IF ok
              THEN SendEnds([app EXCEPT
                               !.store[sid] = Append(@, Message("model", 0, code)),
                               !.sends[n].replySavedIn = sid], n)
              ELSE SendEnds(app, n)
    /\ UNCHANGED << commitVars, chatVars, tree, card >>

\* handleNewChat
NewChat ==
    /\ app' = [app EXCEPT !.messages = << InitialMessage >>,
                          !.currentCode = NoCode,
                          !.currentSessionId = NoSession]
    /\ UNCHANGED << commitVars, chatVars, tree, card >>

\* handleLoadSession up to its await
LoadSession(l, sid) ==
    /\ app.loads[l].pc = "idle"
    /\ \A j \in Loads : j < l => app.loads[j].pc # "idle"
    /\ sid \in StoredSessions \cup (3..(2 + app.created))
    /\ app' = [app EXCEPT !.isLoading = TRUE,
                          !.loads[l] = [pc |-> "fetching", sid |-> sid]]
    /\ UNCHANGED << commitVars, chatVars, tree, card >>

\* getSessionMessages returns: the messages of the session, or none on an
\* error of the store
LoadSessionReturns(l, ok) ==
    /\ app.loads[l].pc = "fetching"
    /\ LET uiMessages ==
               IF ok THEN UiMessages(app.store[app.loads[l].sid]) ELSE << >>
       IN  app' = [app EXCEPT
                     !.messages = IF Len(uiMessages) = 0
                                  THEN << InitialMessage >> ELSE uiMessages,
                     !.currentCode = RestoredCode(uiMessages, @),
                     !.currentSessionId = app.loads[l].sid,
                     !.isLoading = FALSE,
                     !.loads[l].pc = "done"]
    /\ UNCHANGED << commitVars, chatVars, tree, card >>

InitApp ==
    /\ which = "route"
    /\ env = [token |-> TRUE, owner |-> TRUE, repo |-> TRUE]
    /\ remote = [p \in {FilePath} |-> Absent]
    /\ ext = 0
    /\ inv = [i \in Invs |-> IdleInv]
    /\ calls = [k \in Calls |-> IdleCall]
    /\ keys = [c \in Credentials |-> TRUE]
    /\ chat = IdleChat
    /\ tree = IdleTree
    /\ card = IdleCard
    /\ app = IdleApp

\* a call under way goes on: its awaited promise settles
SendContinues(n) ==
    \/ \E ok \in BOOLEAN : CreateSessionReturns(n, ok)
    \/ \E ok \in BOOLEAN : SaveUserReturns(n, ok)
    \/ \E code \in {NoCode, ReplyCode} : ProviderReturns(n, code)
    \/ \E ok \in BOOLEAN : SaveReplyReturns(n, ok)

NextApp ==
    \/ \E n \in Sends, input \in Inputs : Submit(n, input)
    \/ \E n \in Sends : SendContinues(n)
    \/ NewChat
    \/ \E l \in Loads, sid \in Sessions : LoadSession(l, sid)
    \/ \E l \in Loads, ok \in BOOLEAN : LoadSessionReturns(l, ok)

SpecApp == InitApp /\ [][NextApp]_vars

\* every awaited call of the store and of the provider returns
SpecAppLive ==
    /\ SpecApp
    /\ \A n \in Sends : WF_vars(SendContinues(n))
    /\ \A l \in Loads : WF_vars(\E ok \in BOOLEAN : LoadSessionReturns(l, ok))

\* the chatWithAI call is over
ChatDone == chat.pc = "done"

\* text begins with the lexemes of prefix
StartsWith(text, prefix) ==
    /\ Len(text) >= Len(prefix)
    /\ SubSeq(text, 1, Len(prefix)) = prefix

ErrorPrefix ==
    << Chars("Error ("), Chars(chat.provider), Chars("): ") >>

\* C13: chatWithAI never throws to its caller: every failure of the
\* provider call (unsupported provider, missing credential, network
\* rejection, non-success status, malformed or empty answer) is returned as
\* an AIResponse whose text is 'Error (<provider>): ' followed by the
\* message of the failure, with structuredData null
C13_FailuresReturnedAsErrorText ==
    /\ ~chat.escaped
    /\ ChatDone => chat.returned
    /\ (ChatDone /\ chat.failure # "") =>
          /\ chat.thrown # EmptyText
          /\ chat.response.text.t = "string"
          /\ StartsWith(chat.response.text.s, ErrorPrefix \o chat.thrown)
          /\ chat.response.structuredData = Null

\* a non-success status of groq came back as an error text that carries
\* the upstream message
C13_Witness ==
    /\ ChatDone
    /\ chat.provider = "groq"
    /\ chat.failure = "status"
    /\ chat.returned
    /\ chat.response.text.s[6] = Chars("Rate limit reached")

\* C14: a call whose provider's own credential (API_KEY for google,
\* GROQ_API_KEY for groq, OPENAI_API_KEY for openai) is not set fails with
\* the missing-credential error that names that credential, and makes no
\* outbound request, whatever other credentials are set
C14_OwnCredentialRequired ==
    \A provider \in Providers, name \in Credentials :
        (/\ chat.pc # "idle"
         /\ chat.provider = provider
         /\ << provider, name >> \in {<< "google", "API_KEY" >>,
                                      << "groq", "GROQ_API_KEY" >>,
                                      << "openai", "OPENAI_API_KEY" >>}
         /\ ~keys[name]) =>
            /\ ChatDone
            /\ chat.failure = "credential"
            /\ chat.requests = 0
            /\ chat.thrown[1] = Chars(name)
            /\ StartsWith(chat.response.text.s, ErrorPrefix \o chat.thrown)

\* openai was called with the other two credentials set and its own missing
C14_Witness ==
    /\ ChatDone
    /\ chat.provider = "openai"
    /\ keys["API_KEY"] /\ keys["GROQ_API_KEY"] /\ ~keys["OPENAI_API_KEY"]
    /\ chat.failure = "credential"
    /\ chat.requests = 0
    /\ chat.thrown[1] = Chars("OPENAI_API_KEY")

\* C15: a non-empty answer that is not a JSON text after the fence cleaning
\* is returned as it came: text is the raw text, unchanged, structuredData
\* is null, nothing is thrown
C15_UndecodableReturnsRawText ==
    (/\ ChatDone
     /\ chat.failure = ""
     /\ ~JsonParse(CleanedText(chat.rawText)).ok) =>
        /\ chat.returned /\ ~chat.escaped
        /\ chat.rawText # EmptyText
        /\ chat.response.text = Str(chat.rawText)
        /\ chat.response.structuredData = Null

\* the cleaning took a fence off a text that is no JSON text, and the
\* answer is the text with its fence
C15_Witness ==
    /\ ChatDone
    /\ chat.failure = ""
    /\ CleanedText(chat.rawText) # chat.rawText
    /\ ~JsonParse(CleanedText(chat.rawText)).ok
    /\ chat.response.text = Str(chat.rawText)

\* C16: a JSON object between an opening fence line, whatever its label
\* (json, another one, none), and a closing fence line is decoded
C16_AnyFenceLabelDecoded ==
    \A o \in FenceLines, b \in JsonBodies :
        (/\ ChatDone
         /\ chat.failure = ""
         /\ chat.rawText = o \o b \o << NL, Fence >>
         /\ JsonParse(b).v.t = "object") =>
            /\ chat.decoded
            /\ chat.parsed = JsonParse(b).v

\* C17: a decoded object without a structuredData field gives
\* structuredData null
C17_AbsentStructuredDataIsNull ==
    (/\ ChatDone
     /\ chat.decoded
     /\ chat.parsed.t = "object"
     /\ \A n \in 1..Len(chat.parsed.m) :
            chat.parsed.m[n][1] # "structuredData") =>
        chat.response.structuredData = Null

\* an object with a text field alone was decoded
C17_Witness ==
    /\ ChatDone
    /\ chat.decoded
    /\ chat.parsed = Obj(<< << "text", Str(<< Chars("hi") >>) >> >>)
    /\ chat.response.structuredData = Null

\* C18: on a decoding that succeeded the text is the text field of the
\* decoded object whenever the field is there (neither null nor
\* undefined), the empty string included; the default text is used only
\* when the field is absent
C18_PresentTextKept ==
    (ChatDone /\ chat.decoded) =>
        IF Get(chat.parsed, "text").t \in {"null", "undefined"}
        THEN chat.response.text = DefaultText
        ELSE chat.response.text = Get(chat.parsed, "text")

\* C18, amended: on a decoding that succeeded the text is the text field of
\* the decoded object whenever the field is truthy; the default text is
\* used when the field is absent, null or another falsy value, the empty
\* string included
C18_TruthyTextKept ==
    (ChatDone /\ chat.decoded) =>
        IF Truthy(Get(chat.parsed, "text"))
        THEN chat.response.text = Get(chat.parsed, "text")
        ELSE chat.response.text = DefaultText

\* an object whose text is the empty string was decoded and the answer has
\* the default text
C18_Witness ==
    /\ ChatDone
    /\ chat.decoded
    /\ Get(chat.parsed, "text") = Str(EmptyText)
    /\ chat.response.text = DefaultText

\* a proposal with its fields: the action, and for a COMMIT the path and
\* the content
WellFormedProposal(v) ==
    /\ v.t = "object"
    /\ Get(v, "action") \in {Str(<< Chars("COMMIT") >>),
                             Str(<< Chars("CHAT") >>)}
    /\ Get(v, "action") = Str(<< Chars("COMMIT") >>) =>
          /\ Get(v, "file_path").t = "string"
          /\ Get(v, "new_content").t = "string"

\* C19: the structuredData of an answer is null or a proposal with its
\* fields: a COMMIT without file_path or new_content, or a value that is no
\* proposal object, is answered as null
C19_NoPartialProposal ==
    (ChatDone /\ chat.returned) =>
        \/ chat.response.structuredData = Null
        \/ WellFormedProposal(chat.response.structuredData)

\* C20: the text of every AIResponse chatWithAI returns is a non-empty
\* string
C20_TextNonEmptyString ==
    (ChatDone /\ chat.returned) =>
        /\ chat.response.text.t = "string"
        /\ chat.response.text.s # EmptyText

\* C24: getRepoFileTree never throws to its caller: when no token is given
\* or set, when the branch reference lookup fails or when the tree fetch
\* fails it returns the empty list; otherwise it returns paths of blobs of
\* the tree only, in the order of the tree, none of them starting with
\* '.git' or containing 'node_modules' or 'package-lock.json'
C24_TreeNeverThrowsFilesOnly ==
    /\ ~tree.escaped
    /\ tree.pc = "done" =>
          /\ tree.returned
          /\ tree.failure # "" => tree.files = << >>
          /\ (FalsyStr(tree.token) /\ ~env.token) =>
                (tree.failure = "token" /\ tree.requests = 0)
          /\ \A n \in 1..Len(tree.files) :
                /\ \E k \in 1..Len(tree.fetched) :
                      /\ tree.fetched[k].type = "blob"
                      /\ tree.fetched[k].path = tree.files[n]
                /\ tree.files[n][1] # ".git"
                /\ \A j \in 1..Len(tree.files[n]) :
                      tree.files[n][j] \notin {"node_modules",
                                               "package-lock.json"}
          /\ \A k \in 1..Len(tree.fetched) :
                tree.fetched[k] = Item("blob", << "src/a.ts" >>) =>
                    \E n \in 1..Len(tree.files) : tree.files[n] = << "src/a.ts" >>

\* a tree with the lock file and a source file was answered with the source
\* file alone
C24_Witness ==
    /\ tree.pc = "done"
    /\ tree.fetched = << Item("blob", << "package-lock.json" >>),
                         Item("blob", << "src/a.ts" >>) >>
    /\ tree.files = << << "src/a.ts" >> >>

\* the call of the card's last click has returned or thrown
CallSettled == card.call # 0 /\ calls[card.call].pc \in {"thrown", "returned"}

\* C21: a turn does not commit by itself: while the provider is asked and
\* the reply is shown no request goes to the commit endpoint; a request is
\* sent only by a handleCommitClick that found the confirmation box
\* checked, one request at most for each such click
C21_CommitOnlyFromConfirmedClick ==
    /\ ~card.unconfirmed
    /\ card.clicks = 0 =>
          /\ \A k \in Calls : calls[k].pc = "idle" /\ calls[k].fetches = 0
          /\ \A i \in Invs : inv[i].pc = "idle"
    /\ \A k \in Calls :
          /\ calls[k].pc # "idle" => (card.mounted /\ k <= card.clicks)
          /\ calls[k].fetches <= 1
    /\ \A i \in Invs : inv[i].pc # "idle" => inv[i].caller \in 1..card.clicks

\* a confirmed click has sent a request that reached the endpoint
C21_Witness ==
    /\ card.clicks = 1
    /\ card.isChecked
    /\ calls[1].fetches = 1
    /\ inv[1].pc # "idle"

\* C22: when the endpoint answers a commit call with a status that is not
\* OK and the error m, handleCommit throws an error with the message m and
\* the card ends in status 'error' showing m; a card in 'success' had its
\* call answered OK
C22_EndpointFailureShown ==
    /\ (/\ CallSettled
        /\ card.status # "loading"
        /\ calls[card.call].inv # 0
        /\ ~ResponseOk(inv[calls[card.call].inv].resp.status)) =>
            LET m == inv[calls[card.call].inv].resp.error
            IN  /\ m # ""
                /\ calls[card.call].pc = "thrown"
                /\ calls[card.call].error = m
                /\ card.status = "error"
                /\ card.errorMessage = m
    /\ card.status = "success" =>
          /\ calls[card.call].pc = "returned"
          /\ calls[card.call].inv # 0
          /\ ResponseOk(inv[calls[card.call].inv].resp.status)

\* the endpoint answered 500 for a missing token and the card shows the
\* message of the answer
C22_Witness ==
    /\ CallSettled
    /\ card.status = "error"
    /\ calls[card.call].inv # 0
    /\ inv[calls[card.call].inv].resp.status = 500
    /\ card.errorMessage = MsgConfig

\* the steps of a card's status
StatusSteps ==
    {<< "idle", "loading" >>, << "loading", "success" >>,
     << "loading", "error" >>, << "error", "loading" >>}

\* C27: the status of a card moves from idle to loading, from loading to
\* success or error, from error to loading, and in no other way; from
\* success nothing moves and no commit call starts; once the commit call
\* has settled, the next thing that happens to the card takes it from
\* loading to success or error
C27_StatusTransitions ==
    [][/\ card'.status # card.status =>
              << card.status, card'.status >> \in StatusSteps
       /\ card.status = "success" =>
              /\ card'.status = "success"
              /\ \A k \in Calls : calls'[k].pc = "idle" <=> calls[k].pc = "idle"
       /\ (card.status = "loading" /\ CallSettled /\ card' # card) =>
              card'.status \in {"success", "error"}
       /\ (card.status = "loading" /\ ~CallSettled) =>
              card'.status = "loading"]_vars

\* a card that failed, was retried and succeeded
C27_Witness ==
    /\ card.status = "success"
    /\ card.call = 2
    /\ calls[1].pc = "thrown"

\* C28: the recent commits of a card change only when a commit call has
\* returned: the new entry (the card's path, the proposal's message or
\* 'Update <path>') comes first, the entries read at mount follow, the list
\* is cut to its first 5 entries, is ordered newest first, and is what
\* localStorage holds
C28_HistoryOnSuccessNewestFirst ==
    card.mounted =>
        LET rc == card.recentCommits IN
        /\ card.stored = rc
        /\ Len(rc) <= 5
        /\ \A n \in 1..(Len(rc) - 1) : rc[n].timestamp > rc[n + 1].timestamp
        /\ IF card.status = "success"
           THEN /\ Len(rc) = IF Len(card.loaded) < 5
                             THEN Len(card.loaded) + 1 ELSE 5
                /\ rc[1].filePath = card.filePath
                /\ rc[1].message =
                      IF FalsyStr(card.data.commit_message)
                      THEN "Update " \o card.filePath
                      ELSE card.data.commit_message[1]
                /\ \A n \in 2..Len(rc) : rc[n] = card.loaded[n - 1]
           ELSE rc = card.loaded

\* a commit succeeded with five commits stored: the new one is first and
\* the oldest one is gone
C28_Witness ==
    /\ card.status = "success"
    /\ Len(card.loaded) = 5
    /\ Len(card.stored) = 5
    /\ card.stored[1].filePath = FilePath
    /\ card.stored[5] = card.loaded[4]

\* C29: every request handleCommit sends for a card has its three fields
\* non-empty: the path is the path of the card's field, the content is the
\* content of the proposal, the message is the message of the proposal or,
\* without one, 'Update <path>'; no request of a card is answered 400
C29_RequestFieldsNonEmpty ==
    /\ \A k \in Calls :
          calls[k].fetches > 0 =>
              LET r == calls[k].request IN
              /\ ~FalsyStr(r.file_path)
              /\ ~FalsyBytes(r.new_content)
              /\ ~FalsyStr(r.commit_message)
              /\ r.new_content = card.data.new_content
              /\ r.commit_message =
                    IF FalsyStr(card.data.commit_message)
                    THEN Some("Update " \o r.file_path[1])
                    ELSE card.data.commit_message
              /\ (card.call = k /\ card.status = "loading") =>
                    r.file_path = Some(card.filePath)
    /\ \A i \in Invs :
          (inv[i].pc # "idle" /\ inv[i].caller # 0) =>
              /\ inv[i].body = calls[inv[i].caller].request
              /\ Done(i) => inv[i].resp.status # 400

\* a proposal without a message was committed as 'Update a.txt'
C29_Witness ==
    \E i \in Invs :
        /\ Done(i)
        /\ inv[i].caller # 0
        /\ card.data.commit_message = None
        /\ inv[i].body.commit_message = Some("Update a.txt")
        /\ inv[i].resp.status = 200

(***************************************************************************)
(* App: the claims about handleSend, handleNewChat and handleLoadSession.  *)
(***************************************************************************)
\* the handleSend calls whose chatWithAI call has not returned yet
OutstandingProviderCalls == {n \in Sends : app.sends[n].pc = "calling"}

\* C23: at any time at most one provider call started by handleSend is
\* outstanding.  The code does not keep this: handleLoadSession ends with
\* setIsLoading(false) while the provider call of a turn is still awaited,
\* and the next submit is accepted and starts a second call.
C23_OneProviderCallOutstanding == Cardinality(OutstandingProviderCalls) <= 1

\* handleSend call n has put its user message on the page and no reply yet
AwaitingReply(n) == app.sends[n].pc \in {"creating", "savingUser", "calling"}

\* what handleSend call n has put on the page so far: one user message from
\* the moment it is accepted, no model message before chatWithAI returns and
\* one from then on
OneUserThenOneModel(n) ==
    /\ app.sends[n].pc = "idle" =>
           app.sends[n].userAppends = 0 /\ app.sends[n].modelAppends = 0
    /\ app.sends[n].pc # "idle" => app.sends[n].userAppends = 1
    /\ AwaitingReply(n) => app.sends[n].modelAppends = 0
    /\ app.sends[n].pc \in {"savingReply", "done"} =>
           app.sends[n].modelAppends = 1

\* C25: every submission handleSend accepts puts exactly one user message
\* and then exactly one model message on the page, and comes to its end with
\* isLoading reset to false, whether the calls of the history store succeed
\* or fail (they return in both cases; chatWithAI returns an AIResponse in
\* every case).
C25_OneReplyPerSubmission ==
    /\ [](\A n \in Sends : OneUserThenOneModel(n))
    /\ \A n \in Sends :
           (app.sends[n].pc # "idle")
               ~> (app.sends[n].pc = "done" /\ ~app.isLoading)

\* a submission has ended with its two messages shown and isLoading false
\* although nothing of it reached the store
C25_Witness ==
    \E n \in Sends :
        /\ app.sends[n].pc = "done"
        /\ app.sends[n].userAppends = 1
        /\ app.sends[n].modelAppends = 1
        /\ app.sends[n].userSavedIn = NoSession
        /\ app.sends[n].replySavedIn = NoSession
        /\ ~app.isLoading

\* the message at place i of the page is the reply of a turn whose user
\* message is not before it on the page
ReplyWithoutItsTurn(i) ==
    /\ app.messages[i].role = "model"
    /\ app.messages[i].turn # 0
    /\ \A j \in 1..(i - 1) :
           app.messages[j] # Message("user", app.messages[i].turn, NoCode)

\* C26: the reply of a turn is appended to the transcript that holds the
\* user message of that turn.  The code does not keep this: setMessages(prev
\* => [...prev, aiMessage]) appends to whatever transcript is on the page
\* when chatWithAI returns, also after handleNewChat or handleLoadSession
\* has replaced it.
C26_ReplyJoinsItsTurn ==
    \A i \in 1..Len(app.messages) : ~ReplyWithoutItsTurn(i)

\* the preview_content values of the rows of session sid
CodesOf(sid) ==
    {app.store[sid][i].code : i \in 1..Len(app.store[sid])} \ {NoCode}

\* handleLoadSession call l comes to its end in this step
LoadCompletes(l) ==
    app.loads[l].pc = "fetching" /\ app'.loads[l].pc = "done"

\* C30: when handleLoadSession has completed, currentCode is code of the
\* loaded session, or empty when that session has none.  The code does not
\* keep this: it calls setCurrentCode only when a message with
\* preview_content is found, so the code of the conversation shown before
\* stays in the editor.
C30_LoadedCodeIsOfSession ==
    [][\A l \in Loads :
          LoadCompletes(l) =>
              app'.currentCode \in CodesOf(app.loads[l].sid) \cup {NoCode}]_vars

====
